---- MODULE Spec2Model ----
(***************************************************************************)
(* Mirror Reflection Sandbox: the ReflectionEngine (reflectPoint,          *)
(* reflectPolygon, the recursive reflection-chain search and the virtual   *)
(* entities it creates), the Mirror predicates it relies on, and the       *)
(* earlier first-level-only ReflectionEngine kept in the repository, the    *)
(* incremental ReflectionEngine.updateVirtualObjects, and the              *)
(* MainSimulation with the drag handlers of PolygonObject and Viewer.      *)
(***************************************************************************)
EXTENDS Integers, Sequences, FiniteSets, TLC

VARIABLES
    mirrors,         \* the mirrors argument: a list of Mirror references
    maxDepth,        \* the maxDepth argument
    polygonVertices, \* the heap of PolygonObjects: reference -> its vertices field
    object,          \* the object argument of the last call that took one object
    viewer,          \* the viewer argument (a Viewer, or null)
    virtualObjects,  \* the list returned by the last generateVirtualObjects call
    virtualViewers,  \* the list returned by the last generateVirtualViewers call
    op,              \* the engine operation that ran last
    rpLog,           \* a pair of reflectPoint calls: point, mirror, result of each
    polyLog,         \* a reflectPolygon call: vertices, mirror, result
    stack,           \* the call stack of generateReflectionsRecursive while it runs
    objects,         \* the objects argument of the last call that took a list / the scene's objects
    repeat,          \* the last engine call had the operation and arguments of the one before
    isDragging,      \* isDragging of every PolygonObject and of the Viewer
    isSelected,      \* isSelected of every PolygonObject
    dragStart,       \* dragStart of every PolygonObject: x, y, vertices
    dragOffset,      \* dragOffset of the Viewer
    drags,           \* mousedown events handled so far
    mouse,           \* mouseX, mouseY as the Viewer's handlers last computed them
    generation,      \* calls of VirtualSimulation.generateVirtualObjectsAndViewers so far
    dom              \* the element fields of the virtual entities and the children of the canvas

\* the fields the drag handlers write
dragVars == <<isDragging, isSelected, dragStart, dragOffset, drags, mouse>>

\* what rendering and destroying virtual entities writes
domVars == <<generation, dom>>

vars == <<mirrors, maxDepth, polygonVertices, object, viewer, virtualObjects, virtualViewers, op, rpLog,
          polyLog, stack, objects, repeat, dragVars, domVars>>

(***************************************************************************)
(* Bounds                                                                  *)
(***************************************************************************)
MaxDepth == 3      \* largest maxDepth argument
MaxCoord == 2      \* points to reflect have coordinates in 0..MaxCoord
MaxDrags == 2      \* mousedown events handled in one run of the simulation
MaxObjects == 3    \* longest object list addObject is followed to
MaxGenerations == 3  \* calls of generateVirtualObjectsAndViewers in one run
MaxRenders == 2    \* elements created for the Viewer in one run

\* new VirtualSimulation({ maxReflectionDepth: 2 }) in MainSimulation
maxReflectionDepth == 2

(***************************************************************************)
(* Mirror instances.  A Mirror is an object with identity: the id field    *)
(* stands for the reference, the other fields are Mirror's x1, y1, x2, y2. *)
(* The constructor stores any four numbers.                                *)
(***************************************************************************)
Mirror(id, x1, y1, x2, y2) == [id |-> id, x1 |-> x1, y1 |-> y1, x2 |-> x2, y2 |-> y2]

\* a closed box of four walls
BoxMirrors ==
    { Mirror(1, 0, 0, 0, 4),      \* left wall, vertical x = 0
      Mirror(2, 0, 0, 4, 0),      \* top wall, horizontal y = 0
      Mirror(3, 4, 0, 4, 4),      \* right wall, vertical x = 4
      Mirror(4, 0, 4, 4, 4) }     \* bottom wall, horizontal y = 4

\* a second scene: two instances with the same coordinates, a diagonal
\* segment and a zero-length segment
OddMirrors ==
    { Mirror(5, 3, 0, 3, 4),      \* vertical x = 3
      Mirror(6, 3, 0, 3, 4),      \* another instance, same coordinates
      Mirror(7, 0, 0, 4, 4),      \* neither horizontal nor vertical
      Mirror(8, 2, 2, 2, 2) }     \* x1 = x2 and y1 = y2

\* the mirrors of the documented examples
ExampleMirrors ==
    { Mirror(9, 100, 0, 100, 100),    \* vertical x = 100
      Mirror(10, 0, 50, 100, 50) }    \* horizontal y = 50

AllMirrors == BoxMirrors \cup OddMirrors \cup ExampleMirrors

SeqsUpTo(S, n) == UNION { [1..k -> S] : k \in 0..n }

Distinct(s) == \A i, j \in 1..Len(s) : i # j => s[i].id # s[j].id

\* the lists of pairwise distinct instances of one scene, in every order
DistinctLists(S) == { l \in SeqsUpTo(S, Cardinality(S)) : Distinct(l) }

\* lists that name one instance twice: <<a, a>>, <<a, a, b>>, <<a, b, a>>
RepeatLists(S) ==
    { <<l[1]>> \o l : l \in { d \in DistinctLists(S) : Len(d) \in 1..2 } }
      \cup { Append(l, l[1]) : l \in { d \in DistinctLists(S) : Len(d) \in 1..2 } }

MirrorLists ==
    DistinctLists(BoxMirrors) \cup RepeatLists(BoxMirrors)
      \cup DistinctLists(OddMirrors) \cup RepeatLists(OddMirrors)

\* lists of at most two walls of the box, in the order of the scene
UpdateMirrorLists ==
    { l \in DistinctLists(BoxMirrors) :
        Len(l) <= 2 /\ \A i \in 1..(Len(l) - 1) : l[i].id < l[i + 1].id }

(***************************************************************************)
(* Points, polygons, viewers                                               *)
(***************************************************************************)
Point(x, y) == [x |-> x, y |-> y]

Points == { Point(x, y) : x \in 0..MaxCoord, y \in 0..MaxCoord }
              \cup { Point(40, 50), Point(40, 20) }

\* PolygonObject instances are references; polygonVertices holds their vertices
PolygonObjects == { "triangle", "square" }

NoObject == "none"

InitialVertices ==
    [ o \in PolygonObjects |->
        IF o = "triangle"
        THEN <<Point(1, 1), Point(3, 1), Point(2, 3)>>
        ELSE <<Point(1, 2), Point(2, 2), Point(2, 3), Point(1, 3)>> ]

\* Viewer instances; null is the record with present = FALSE
Viewer(x, y, radius) == [present |-> TRUE, x |-> x, y |-> y, radius |-> radius]
NullViewer == [present |-> FALSE, x |-> 0, y |-> 0, radius |-> 0]
Viewers == { NullViewer, Viewer(1, 2, 15) }

getPosition(v) == Point(v.x, v.y)

(***************************************************************************)
(* Mirror.isHorizontal, Mirror.isVertical                                  *)
(***************************************************************************)
isHorizontal(mirror) == mirror.y1 = mirror.y2

isVertical(mirror) == mirror.x1 = mirror.x2

Range(f) == { f[i] : i \in DOMAIN f }

\* the comparison done on the coordinates instead of the references
SameInstance_byCoordinates(a, b) ==
    a.x1 = b.x1 /\ a.y1 = b.y1 /\ a.x2 = b.x2 /\ a.y2 = b.y2

\* === on two Mirror references
SameInstance(a, b) == a.id = b.id

(***************************************************************************)
(* ReflectionEngine.reflectPoint, reflectPolygon                           *)
(***************************************************************************)
\* reflectPoint with the factor 2 forgotten
reflectPoint_single(point, mirror) ==
    IF isVertical(mirror) THEN [x |-> mirror.x1 - point.x, y |-> point.y]
    ELSE IF isHorizontal(mirror) THEN [x |-> point.x, y |-> mirror.y1 - point.y]
    ELSE point

\* reflectPoint with the operands of the subtraction swapped
reflectPoint_swapped(point, mirror) ==
    IF isVertical(mirror) THEN [x |-> point.x - 2 * mirror.x1, y |-> point.y]
    ELSE IF isHorizontal(mirror) THEN [x |-> point.x, y |-> point.y - 2 * mirror.y1]
    ELSE point

\* reflectPoint with the factor 2 applied to the difference
reflectPoint_scaled(point, mirror) ==
    IF isVertical(mirror) THEN [x |-> 2 * (mirror.x1 - point.x), y |-> point.y]
    ELSE IF isHorizontal(mirror) THEN [x |-> point.x, y |-> 2 * (mirror.y1 - point.y)]
    ELSE point

\* reflectPoint without the isHorizontal test: whatever is not vertical is
\* reflected as a horizontal mirror
reflectPoint_fallThrough(point, mirror) ==
    IF isVertical(mirror) THEN [x |-> 2 * mirror.x1 - point.x, y |-> point.y]
    ELSE [x |-> point.x, y |-> 2 * mirror.y1 - point.y]

reflectPoint(point, mirror) ==
    IF isVertical(mirror)
    THEN LET mirrorX == mirror.x1
             reflectedX == 2 * mirrorX - point.x
         IN  [x |-> reflectedX, y |-> point.y]
    ELSE IF isHorizontal(mirror)
    THEN LET mirrorY == mirror.y1
             reflectedY == 2 * mirrorY - point.y
         IN  [x |-> point.x, y |-> reflectedY]
    ELSE point    \* console.warn, and the point comes back unchanged

\* what reflectPoint writes with console.warn
NoWarning == "none"

reflectPointWarning(mirror) ==
    IF isVertical(mirror) \/ isHorizontal(mirror) THEN NoWarning
    ELSE "Non-orthogonal mirrors not supported yet"

\* reflectPolygon filling the result from the last vertex to the first
reflectPolygon_reversed(vertices, mirror) ==
    [i \in 1..Len(vertices) |-> reflectPoint(vertices[Len(vertices) + 1 - i], mirror)]

\* vertices.map(vertex => reflectPoint(vertex, mirror))
reflectPolygon(vertices, mirror) ==
    [i \in 1..Len(vertices) |-> reflectPoint(vertices[i], mirror)]

(***************************************************************************)
(* VirtualObject and VirtualViewer constructors.  opacity is kept in       *)
(* tenths: Math.max(0.3, 1 - depth * 0.2).                                 *)
(***************************************************************************)
Max(a, b) == IF a >= b THEN a ELSE b

\* VirtualObject without the Math.max: the opacity keeps falling with depth
VirtualObject_noFloor(originalObject, reflectionChain, depth, vertices) ==
    [ originalObject  |-> originalObject,
      reflectionChain |-> reflectionChain,
      depth           |-> depth,
      vertices        |-> vertices,
      opacity         |-> 10 - depth * 2 ]

VirtualObject(originalObject, reflectionChain, depth, vertices) ==
    [ originalObject  |-> originalObject,
      reflectionChain |-> reflectionChain,
      depth           |-> depth,
      vertices        |-> vertices,
      opacity         |-> Max(3, 10 - depth * 2) ]

VirtualViewer(originalViewer, reflectionChain, depth, position, radius) ==
    [ originalViewer  |-> originalViewer,
      reflectionChain |-> reflectionChain,
      depth           |-> depth,
      x               |-> position.x,
      y               |-> position.y,
      radius          |-> IF radius # 0 THEN radius ELSE originalViewer.radius,
      opacity         |-> Max(3, 10 - depth * 2) ]

(***************************************************************************)
(* ReflectionEngine.generateVirtualObjects and its recursion.  The         *)
(* recursion pushes onto one shared virtualObjects array; each operator    *)
(* returns the entities its call pushes, in the order it pushes them.      *)
(***************************************************************************)
RECURSIVE generateReflectionsRecursive(_, _, _, _, _, _)
RECURSIVE forEachMirror(_, _, _, _, _, _, _)

\* skipMirror with the length test off by one
skipMirror_offByOne(reflectionChain, mirror) ==
    Len(reflectionChain) > 1
      /\ SameInstance(reflectionChain[Len(reflectionChain)], mirror)

\* the guard of the forEach callback: the mirror was the last one used
skipMirror(reflectionChain, mirror) ==
    Len(reflectionChain) > 0
      /\ SameInstance(reflectionChain[Len(reflectionChain)], mirror)

\* forEachMirror recursing on the vertices it was given, not the reflected ones
forEachMirror_staleVertices(i, vertices, originalObject, mirrorList, depthLimit, currentDepth, reflectionChain) ==
    IF i > Len(mirrorList) THEN <<>>
    ELSE LET mirror == mirrorList[i] IN
         IF skipMirror(reflectionChain, mirror)
         THEN forEachMirror(i + 1, vertices, originalObject, mirrorList, depthLimit,
                            currentDepth, reflectionChain)
         ELSE LET reflectedVertices == reflectPolygon(vertices, mirror)
                  newReflectionChain == Append(reflectionChain, mirror)
                  virtualObject == VirtualObject(originalObject, newReflectionChain,
                                                 currentDepth + 1, reflectedVertices)
              IN  <<virtualObject>>
                    \o generateReflectionsRecursive(vertices, originalObject,
                           mirrorList, depthLimit, currentDepth + 1, newReflectionChain)
                    \o forEachMirror(i + 1, vertices, originalObject, mirrorList,
                           depthLimit, currentDepth, reflectionChain)

\* mirrors.forEach(mirror => ...) from the i-th mirror on
forEachMirror(i, vertices, originalObject, mirrorList, depthLimit, currentDepth, reflectionChain) ==
    IF i > Len(mirrorList) THEN <<>>
    ELSE LET mirror == mirrorList[i] IN
         IF skipMirror(reflectionChain, mirror)
         THEN forEachMirror(i + 1, vertices, originalObject, mirrorList, depthLimit,
                            currentDepth, reflectionChain)
         ELSE LET reflectedVertices == reflectPolygon(vertices, mirror)
                  newReflectionChain == Append(reflectionChain, mirror)
                  virtualObject == VirtualObject(originalObject, newReflectionChain,
                                                 currentDepth + 1, reflectedVertices)
              IN  <<virtualObject>>
                    \o generateReflectionsRecursive(reflectedVertices, originalObject,
                           mirrorList, depthLimit, currentDepth + 1, newReflectionChain)
                    \o forEachMirror(i + 1, vertices, originalObject, mirrorList,
                           depthLimit, currentDepth, reflectionChain)

\* generateReflectionsRecursive with the base case off by one
generateReflectionsRecursive_offByOne(vertices, originalObject, mirrorList, depthLimit, currentDepth, reflectionChain) ==
    IF currentDepth > depthLimit THEN <<>>
    ELSE forEachMirror(1, vertices, originalObject, mirrorList, depthLimit,
                       currentDepth, reflectionChain)

generateReflectionsRecursive(vertices, originalObject, mirrorList, depthLimit, currentDepth, reflectionChain) ==
    IF currentDepth >= depthLimit THEN <<>>
    ELSE forEachMirror(1, vertices, originalObject, mirrorList, depthLimit,
                       currentDepth, reflectionChain)

\* generateVirtualObjects with the object itself pushed first, as a depth-0 entity
generateVirtualObjects_withSelf(obj, mirrorList, depthLimit) ==
    <<VirtualObject(obj, <<>>, 0, polygonVertices[obj])>>
      \o generateReflectionsRecursive(polygonVertices[obj], obj, mirrorList, depthLimit, 0, <<>>)

\* generateVirtualObjects pushing onto the array the previous call returned
\* instead of a fresh one
generateVirtualObjects_sharedArray(obj, mirrorList, depthLimit) ==
    virtualObjects
      \o generateReflectionsRecursive(polygonVertices[obj], obj, mirrorList, depthLimit, 0, <<>>)

generateVirtualObjects(obj, mirrorList, depthLimit) ==
    generateReflectionsRecursive(polygonVertices[obj], obj, mirrorList, depthLimit, 0, <<>>)

(***************************************************************************)
(* ReflectionEngine.calculateAllReflections: objects.forEach pushes the    *)
(* entities of each object onto one array.                                 *)
(***************************************************************************)
RECURSIVE forEachObject(_, _, _, _)
forEachObject(i, objs, mirrorList, depthLimit) ==
    IF i > Len(objs) THEN <<>>
    ELSE generateVirtualObjects(objs[i], mirrorList, depthLimit)
           \o forEachObject(i + 1, objs, mirrorList, depthLimit)

\* calculateAllReflections putting the entities of each object in front of
\* those already collected (unshift for push)
calculateAllReflections_unshift(objs, mirrorList, depthLimit) ==
    forEachObject(1, [i \in 1..Len(objs) |-> objs[Len(objs) + 1 - i]], mirrorList, depthLimit)

calculateAllReflections(objs, mirrorList, depthLimit) ==
    forEachObject(1, objs, mirrorList, depthLimit)

(***************************************************************************)
(* ReflectionEngine.generateVirtualViewers and its recursion               *)
(***************************************************************************)
RECURSIVE generateViewerReflectionsRecursive(_, _, _, _, _, _)
RECURSIVE forEachMirrorViewer(_, _, _, _, _, _, _)

forEachMirrorViewer(i, position, originalViewer, mirrorList, depthLimit, currentDepth, reflectionChain) ==
    IF i > Len(mirrorList) THEN <<>>
    ELSE LET mirror == mirrorList[i] IN
         IF skipMirror(reflectionChain, mirror)
         THEN forEachMirrorViewer(i + 1, position, originalViewer, mirrorList, depthLimit,
                                  currentDepth, reflectionChain)
         ELSE LET reflectedPosition == reflectPoint(position, mirror)
                  newReflectionChain == Append(reflectionChain, mirror)
                  virtualViewer == VirtualViewer(originalViewer, newReflectionChain,
                                                 currentDepth + 1, reflectedPosition,
                                                 originalViewer.radius)
              IN  <<virtualViewer>>
                    \o generateViewerReflectionsRecursive(reflectedPosition, originalViewer,
                           mirrorList, depthLimit, currentDepth + 1, newReflectionChain)
                    \o forEachMirrorViewer(i + 1, position, originalViewer, mirrorList,
                           depthLimit, currentDepth, reflectionChain)

\* generateViewerReflectionsRecursive with the base case off by one
generateViewerReflectionsRecursive_offByOne(position, originalViewer, mirrorList, depthLimit, currentDepth, reflectionChain) ==
    IF currentDepth > depthLimit THEN <<>>
    ELSE forEachMirrorViewer(1, position, originalViewer, mirrorList, depthLimit,
                             currentDepth, reflectionChain)

generateViewerReflectionsRecursive(position, originalViewer, mirrorList, depthLimit, currentDepth, reflectionChain) ==
    IF currentDepth >= depthLimit THEN <<>>
    ELSE forEachMirrorViewer(1, position, originalViewer, mirrorList, depthLimit,
                             currentDepth, reflectionChain)

generateVirtualViewers(v, mirrorList, depthLimit) ==
    IF ~v.present THEN <<>>
    ELSE generateViewerReflectionsRecursive(getPosition(v), v, mirrorList, depthLimit,
                                            0, <<>>)

(***************************************************************************)
(* ReflectionEngine.calculateAllReflectionsWithViewer                      *)
(***************************************************************************)
\* calculateAllReflectionsWithViewer returning two empty lists when there is
\* no viewer
calculateAllReflectionsWithViewer_earlyReturn(objs, v, mirrorList, depthLimit) ==
    IF ~v.present THEN [virtualObjects |-> <<>>, virtualViewers |-> <<>>]
    ELSE [ virtualObjects |-> calculateAllReflections(objs, mirrorList, depthLimit),
           virtualViewers |-> generateVirtualViewers(v, mirrorList, depthLimit) ]

calculateAllReflectionsWithViewer(objs, v, mirrorList, depthLimit) ==
    [ virtualObjects |-> calculateAllReflections(objs, mirrorList, depthLimit),
      virtualViewers |-> generateVirtualViewers(v, mirrorList, depthLimit) ]

(***************************************************************************)
(* The first-level-only ReflectionEngine: generateVirtualObjects and       *)
(* generateVirtualViewers reflect once across every mirror and do not      *)
(* read maxDepth.                                                          *)
(***************************************************************************)
generateVirtualObjectsFirstLevel(obj, mirrorList, depthLimit) ==
    [ i \in 1..Len(mirrorList) |->
        LET mirror == mirrorList[i]
            reflectedVertices == reflectPolygon(polygonVertices[obj], mirror)
        IN  VirtualObject(obj, <<mirror>>, 1, reflectedVertices) ]

generateVirtualViewersFirstLevel(v, mirrorList, depthLimit) ==
    IF ~v.present THEN <<>>
    ELSE [ i \in 1..Len(mirrorList) |->
             LET mirror == mirrorList[i]
                 reflectedPosition == reflectPoint(getPosition(v), mirror)
             IN  VirtualViewer(v, <<mirror>>, 1, reflectedPosition, v.radius) ]

(***************************************************************************)
(* The drag fields as the PolygonObject and Viewer constructors leave them *)
(***************************************************************************)
Draggables == PolygonObjects \cup {"viewer"}

NoDragStart == [x |-> 0, y |-> 0, vertices |-> <<>>]

InitDrag ==
    /\ isDragging = [e \in Draggables |-> FALSE]
    /\ isSelected = [o \in PolygonObjects |-> FALSE]
    /\ dragStart = [o \in PolygonObjects |-> NoDragStart]
    /\ dragOffset = Point(0, 0)
    /\ drags = 0
    /\ mouse = Point(0, 0)

(***************************************************************************)
(* Virtual entities on the canvas                                          *)
(*                                                                         *)
(* A virtual entity is named by the generation that created it, its list   *)
(* and its position in the list.  dom.element is the set of entities whose *)
(* element field is not null, dom.canvas the children of the canvas in     *)
(* document order, each named by the entity that created it, dom.created   *)
(* the number of calls of document.createElementNS.                        *)
(***************************************************************************)
Entity(g, list, i) == [generation |-> g, list |-> list, index |-> i]

\* the Viewer of the real scene
ViewerEntity == Entity(0, "viewer", 1)

InitDom ==
    /\ generation = 0
    /\ dom = [element |-> {}, canvas |-> <<>>, created |-> 0]

\* VirtualObject.render and VirtualViewer.render: nothing if the entity has
\* an element, else a new element appended to the canvas
render(d, entity) ==
    IF entity \in d.element
    THEN d
    ELSE [element |-> d.element \cup {entity},
          canvas  |-> Append(d.canvas, entity),
          created |-> d.created + 1]

\* the element field is cleared and the element left in the document
destroy_detachOnly(d, entity) ==
    [d EXCEPT !.element = d.element \ {entity}]

\* VirtualObject.destroy and VirtualViewer.destroy
destroy(d, entity) ==
    [element |-> d.element \ {entity},
     canvas  |-> IF entity \in d.element
                 THEN SelectSeq(d.canvas, LAMBDA child : child # entity)
                 ELSE d.canvas,
     created |-> d.created]

\* list.forEach(entity => entity.render({ parentSvg })) from position i on
RECURSIVE forEachRender(_, _, _, _, _)
forEachRender(d, g, list, i, length) ==
    IF i > length THEN d
    ELSE forEachRender(render(d, Entity(g, list, i)), g, list, i + 1, length)

\* list.forEach(entity => entity.destroy()) from position i on
RECURSIVE forEachDestroy(_, _, _, _, _)
forEachDestroy(d, g, list, i, length) ==
    IF i > length THEN d
    ELSE forEachDestroy(destroy(d, Entity(g, list, i)), g, list, i + 1, length)

\* VirtualSimulation.renderVirtualObjectsAndViewers
renderVirtualObjectsAndViewers(d, g, nObjects, nViewers) ==
    forEachRender(forEachRender(d, g, "virtualObjects", 1, nObjects),
                  g, "virtualViewers", 1, nViewers)

\* VirtualSimulation.clearVirtualObjects, then clearVirtualViewers
clearVirtualObjectsAndViewers(d, g, nObjects, nViewers) ==
    forEachDestroy(forEachDestroy(d, g, "virtualObjects", 1, nObjects),
                   g, "virtualViewers", 1, nViewers)

(***************************************************************************)
(* Initial states: the arguments a caller holds, nothing computed yet      *)
(***************************************************************************)
Init ==
    /\ mirrors \in MirrorLists
    /\ maxDepth \in (-1)..MaxDepth
    /\ polygonVertices = InitialVertices
    /\ object = NoObject
    /\ viewer \in Viewers
    /\ virtualObjects = <<>>
    /\ virtualViewers = <<>>
    /\ op = "none"
    /\ rpLog = <<>>
    /\ polyLog = <<>>
    /\ stack = <<>>
    /\ InitDom
    /\ objects = <<>>
    /\ repeat = FALSE
    /\ InitDrag

(***************************************************************************)
(* Calls of the recursive engine                                           *)
(***************************************************************************)
\* generateVirtualObjects whose reflectPolygon writes the reflected
\* coordinates into the vertices it was given: the object is left reflected
\* across the first mirror
GenerateVirtualObjects_inPlace(obj) ==
    /\ virtualObjects' = generateVirtualObjects(obj, mirrors, maxDepth)
    /\ polygonVertices' =
          IF mirrors = <<>> \/ maxDepth <= 0 THEN polygonVertices
          ELSE [polygonVertices EXCEPT ![obj] = reflectPolygon(@, mirrors[1])]
    /\ object' = obj
    /\ op' = "generateVirtualObjects"
    /\ objects' = <<>>
    /\ repeat' = (op = "generateVirtualObjects" /\ object = obj)
    /\ UNCHANGED <<mirrors, maxDepth, viewer, virtualViewers, rpLog, polyLog, stack, dragVars, domVars>>

GenerateVirtualObjects(obj) ==
    /\ virtualObjects' = generateVirtualObjects(obj, mirrors, maxDepth)
    /\ object' = obj
    /\ op' = "generateVirtualObjects"
    /\ objects' = <<>>
    /\ repeat' = (op = "generateVirtualObjects" /\ object = obj)
    /\ UNCHANGED <<mirrors, maxDepth, polygonVertices, viewer, virtualViewers, rpLog,
                   polyLog, stack, dragVars, domVars>>

GenerateVirtualViewers ==
    /\ virtualViewers' = generateVirtualViewers(viewer, mirrors, maxDepth)
    /\ op' = "generateVirtualViewers"
    /\ repeat' = (op = "generateVirtualViewers")
    /\ UNCHANGED <<mirrors, maxDepth, polygonVertices, object, viewer, virtualObjects, rpLog,
                   polyLog, stack, objects, dragVars, domVars>>

\* the objects lists handed to calculateAllReflections
ObjectLists ==
    { <<>>, <<"triangle">>, <<"square">>, <<"triangle", "square">>,
      <<"square", "triangle">>, <<"triangle", "triangle">> }

CalculateAllReflections(objs) ==
    /\ virtualObjects' = calculateAllReflections(objs, mirrors, maxDepth)
    /\ objects' = objs
    /\ object' = NoObject
    /\ op' = "calculateAllReflections"
    /\ repeat' = (op = "calculateAllReflections" /\ objects = objs)
    /\ UNCHANGED <<mirrors, maxDepth, polygonVertices, viewer, virtualViewers, rpLog,
                   polyLog, stack, dragVars, domVars>>

CalculateAllReflectionsWithViewer(objs) ==
    LET reflections == calculateAllReflectionsWithViewer(objs, viewer, mirrors, maxDepth)
    IN  /\ virtualObjects' = reflections.virtualObjects
        /\ virtualViewers' = reflections.virtualViewers
        /\ objects' = objs
        /\ object' = NoObject
        /\ op' = "calculateAllReflectionsWithViewer"
        /\ repeat' = (op = "calculateAllReflectionsWithViewer" /\ objects = objs)
        /\ UNCHANGED <<mirrors, maxDepth, polygonVertices, viewer, rpLog, polyLog, stack, dragVars, domVars>>

Next ==
    \/ \E obj \in PolygonObjects : GenerateVirtualObjects(obj)
    \/ GenerateVirtualViewers

Spec == Init /\ [][Next]_vars

(***************************************************************************)
(* The four entry points of the recursive engine together, called on       *)
(* lists of at most two mirrors                                            *)
(***************************************************************************)
InitAll ==
    /\ Init
    /\ Len(mirrors) <= 2

NextAll ==
    \/ \E obj \in PolygonObjects : GenerateVirtualObjects(obj)
    \/ GenerateVirtualViewers
    \/ \E objs \in ObjectLists : CalculateAllReflections(objs)
    \/ \E objs \in ObjectLists : CalculateAllReflectionsWithViewer(objs)

SpecAll == InitAll /\ [][NextAll]_vars

(***************************************************************************)
(* The engine called on at most two walls of the box with maxDepth up to   *)
(* MaxDepth + 3: deep enough for entities whose opacity has reached the    *)
(* floor of Math.max(0.3, ...).                                            *)
(***************************************************************************)
InitDeep ==
    /\ mirrors \in UpdateMirrorLists
    /\ maxDepth \in 0..(MaxDepth + 3)
    /\ polygonVertices = InitialVertices
    /\ object = NoObject
    /\ viewer \in Viewers
    /\ virtualObjects = <<>>
    /\ virtualViewers = <<>>
    /\ op = "none"
    /\ rpLog = <<>>
    /\ polyLog = <<>>
    /\ stack = <<>>
    /\ InitDom
    /\ objects = <<>>
    /\ repeat = FALSE
    /\ InitDrag

NextDeep ==
    \/ \E obj \in PolygonObjects : GenerateVirtualObjects(obj)
    \/ GenerateVirtualViewers

SpecDeep == InitDeep /\ [][NextDeep]_vars

(***************************************************************************)
(* generateVirtualObjects step by step: every activation of                *)
(* generateReflectionsRecursive is a frame of the stack, holding its       *)
(* arguments and the index i of the mirror its forEach visits next;        *)
(* virtualObjects is the shared array the activations push onto.           *)
(***************************************************************************)
Frame(vertices, currentDepth, reflectionChain) ==
    [vertices |-> vertices, currentDepth |-> currentDepth,
     reflectionChain |-> reflectionChain, i |-> 1]

\* the recursive call passing currentDepth on as it is
childFrame_sameDepth(frame, mirror) ==
    Frame(reflectPolygon(frame.vertices, mirror), frame.currentDepth,
          Append(frame.reflectionChain, mirror))

\* the arguments of the recursive call made for a mirror
childFrame(frame, mirror) ==
    Frame(reflectPolygon(frame.vertices, mirror), frame.currentDepth + 1,
          Append(frame.reflectionChain, mirror))

Top == stack[Len(stack)]

\* the stack once the running activation has returned
Popped == SubSeq(stack, 1, Len(stack) - 1)

\* lists of up to two mirrors of either scene, one of three and one of four
RecMirrorLists ==
    { l \in MirrorLists : Len(l) <= 2 }
      \cup { <<Mirror(1, 0, 0, 0, 4), Mirror(2, 0, 0, 4, 0), Mirror(3, 4, 0, 4, 4)>>,
              <<Mirror(1, 0, 0, 0, 4), Mirror(2, 0, 0, 4, 0), Mirror(3, 4, 0, 4, 4),
                Mirror(4, 0, 4, 4, 4)>> }

InitRec ==
    /\ mirrors \in RecMirrorLists
    /\ maxDepth \in (-1)..MaxDepth
    /\ polygonVertices = InitialVertices
    /\ object = NoObject
    /\ viewer = NullViewer
    /\ virtualObjects = <<>>
    /\ virtualViewers = <<>>
    /\ op = "none"
    /\ rpLog = <<>>
    /\ polyLog = <<>>
    /\ stack = <<>>
    /\ InitDom
    /\ objects = <<>>
    /\ repeat = FALSE
    /\ InitDrag

\* generateVirtualObjects makes the array and the first activation
EnterGenerateVirtualObjects(obj) ==
    /\ op = "none"
    /\ virtualObjects' = <<>>
    /\ stack' = <<Frame(polygonVertices[obj], 0, <<>>)>>
    /\ object' = obj
    /\ op' = "running"
    /\ UNCHANGED <<mirrors, maxDepth, polygonVertices, viewer, virtualViewers, rpLog,
                   polyLog, objects, repeat, dragVars, domVars>>

\* the running activation returns: to its caller's forEach, or, for the
\* first activation, to generateVirtualObjects, which returns the array
ReturnFrom ==
    /\ stack' = Popped
    /\ op' = IF Len(stack) = 1 THEN "generateVirtualObjects" ELSE op
    /\ UNCHANGED <<mirrors, maxDepth, polygonVertices, object, viewer, virtualObjects,
                   virtualViewers, rpLog, polyLog, objects, repeat, dragVars, domVars>>

\* if (currentDepth >= maxDepth) return
BaseCase ==
    /\ op = "running"
    /\ Top.currentDepth >= maxDepth
    /\ ReturnFrom

\* the forEach has visited every mirror
ForEachDone ==
    /\ op = "running"
    /\ Top.currentDepth < maxDepth
    /\ Top.i > Len(mirrors)
    /\ ReturnFrom

\* the callback returns at once for the mirror used last
SkipStep ==
    /\ op = "running"
    /\ Top.currentDepth < maxDepth
    /\ Top.i <= Len(mirrors)
    /\ skipMirror(Top.reflectionChain, mirrors[Top.i])
    /\ stack' = [stack EXCEPT ![Len(stack)].i = @ + 1]
    /\ UNCHANGED <<mirrors, maxDepth, polygonVertices, object, viewer, virtualObjects,
                   virtualViewers, op, rpLog, polyLog, objects, repeat, dragVars, domVars>>

\* the callback pushes the image across the mirror and makes the recursive call
ReflectStep ==
    /\ op = "running"
    /\ Top.currentDepth < maxDepth
    /\ Top.i <= Len(mirrors)
    /\ ~skipMirror(Top.reflectionChain, mirrors[Top.i])
    /\ LET mirror == mirrors[Top.i]
           child == childFrame(Top, mirror)
       IN  /\ virtualObjects' =
                 Append(virtualObjects,
                        VirtualObject(object, Append(Top.reflectionChain, mirror),
                                      Top.currentDepth + 1,
                                      reflectPolygon(Top.vertices, mirror)))
           /\ stack' = Append([stack EXCEPT ![Len(stack)].i = @ + 1], child)
    /\ UNCHANGED <<mirrors, maxDepth, polygonVertices, object, viewer,
                   virtualViewers, op, rpLog, polyLog, objects, repeat, dragVars, domVars>>

NextRec ==
    \/ \E obj \in PolygonObjects : EnterGenerateVirtualObjects(obj)
    \/ BaseCase
    \/ ForEachDone
    \/ SkipStep
    \/ ReflectStep

\* a call, once made, runs to completion: JavaScript runs it synchronously
SpecRec == InitRec /\ [][NextRec]_vars /\ WF_vars(NextRec)

(***************************************************************************)
(* ReflectionEngine.updateVirtualObjects on a list the engine returned,    *)
(* after objects were moved.  VirtualObject.updatePosition assigns the     *)
(* vertices field of the entity.                                           *)
(***************************************************************************)
updatePosition(virtualObject, newVertices) ==
    [virtualObject EXCEPT !.vertices = newVertices]

\* updateVirtualObjects that leaves every entity as it is
updateVirtualObjects_noop(entities, mirrorList) ==
    entities

\* reflectionChain[0] is the first element of the chain; mirrors is not read
updateVirtualObjects(entities, mirrorList) ==
    [ i \in DOMAIN entities |->
        LET virtualObject == entities[i]
            reflectedVertices ==
                reflectPolygon(polygonVertices[virtualObject.originalObject],
                               virtualObject.reflectionChain[1])
        IN  updatePosition(virtualObject, reflectedVertices) ]

translate(vertices, dx, dy) ==
    [i \in 1..Len(vertices) |-> Point(vertices[i].x + dx, vertices[i].y + dy)]

\* the places an object is moved to
Placements(obj) ==
    { InitialVertices[obj], translate(InitialVertices[obj], 1, 0),
      translate(InitialVertices[obj], 0, 1) }

InitUpdate ==
    /\ mirrors \in UpdateMirrorLists
    /\ maxDepth \in 0..MaxDepth
    /\ polygonVertices = InitialVertices
    /\ object = NoObject
    /\ viewer = NullViewer
    /\ virtualObjects = <<>>
    /\ virtualViewers = <<>>
    /\ op = "none"
    /\ rpLog = <<>>
    /\ polyLog = <<>>
    /\ stack = <<>>
    /\ InitDom
    /\ objects = <<>>
    /\ repeat = FALSE
    /\ InitDrag

\* an object's vertices are replaced from outside the engine
MoveObject(obj, vertices) ==
    /\ vertices # polygonVertices[obj]
    /\ polygonVertices' = [polygonVertices EXCEPT ![obj] = vertices]
    /\ op' = "moveObject"
    /\ repeat' = FALSE
    /\ UNCHANGED <<mirrors, maxDepth, object, viewer, virtualObjects, virtualViewers,
                   rpLog, polyLog, stack, objects, dragVars, domVars>>

UpdateVirtualObjects ==
    /\ virtualObjects' = updateVirtualObjects(virtualObjects, mirrors)
    /\ op' = "updateVirtualObjects"
    /\ repeat' = FALSE
    /\ UNCHANGED <<mirrors, maxDepth, polygonVertices, object, viewer, virtualViewers,
                   rpLog, polyLog, stack, objects, dragVars, domVars>>

NextUpdate ==
    \/ \E objs \in ObjectLists : CalculateAllReflections(objs)
    \/ \E obj \in PolygonObjects : \E vertices \in Placements(obj) : MoveObject(obj, vertices)
    \/ UpdateVirtualObjects

SpecUpdate == InitUpdate /\ [][NextUpdate]_vars

(***************************************************************************)
(* MainSimulation: the real scene (objects, mirrors, viewer), the virtual  *)
(* scene holding the lists of the last regeneration, and the mouse         *)
(* listeners of the rendered PolygonObjects and Viewer.  mirrors, objects  *)
(* and viewer are the fields of RealSceneSimulation, virtualObjects and    *)
(* virtualViewers those of VirtualSimulation, maxDepth its                 *)
(* maxReflectionDepth.                                                     *)
(***************************************************************************)
\* VirtualSimulation.generateVirtualObjectsAndViewers, reached through
\* MainSimulation.updateVirtualObjectsAndViewers
updateVirtualObjectsAndViewers_firstObjectOnly(objs, v, mirrorList) ==
    calculateAllReflectionsWithViewer(SubSeq(objs, 1, 1), v, mirrorList, maxDepth)

updateVirtualObjectsAndViewers(objs, v, mirrorList) ==
    calculateAllReflectionsWithViewer(objs, v, mirrorList, maxDepth)

\* the objects a scene configuration creates
SceneObjectLists == { <<"triangle">>, <<"triangle", "square">> }

\* the mirrors a scene configuration creates: createMirrorsFromConfig hands
\* the four numbers of every entry to new Mirror, and an empty configuration
\* gives one default vertical mirror
SceneMirrorLists ==
    (UpdateMirrorLists \ {<<>>})
      \cup { <<Mirror(7, 0, 0, 4, 4)>>, <<Mirror(8, 2, 2, 2, 2)>> }

\* where the pointer is when an event fires
MousePositions == { Point(0, 0), Point(1, 0), Point(1, 1) }

\* a MainSimulation constructed, init() not called yet
InitMain ==
    /\ mirrors = <<>>
    /\ maxDepth = maxReflectionDepth
    /\ polygonVertices = InitialVertices
    /\ object = NoObject
    /\ viewer = NullViewer
    /\ virtualObjects = <<>>
    /\ virtualViewers = <<>>
    /\ op = "none"
    /\ rpLog = <<>>
    /\ polyLog = <<>>
    /\ stack = <<>>
    /\ InitDom
    /\ objects = <<>>
    /\ repeat = FALSE
    /\ InitDrag

\* MainSimulation.init: the real scene is built from the configuration, the
\* callbacks are assigned, the virtual lists are generated and all is rendered
MainInit(objs, mirrorList) ==
    /\ ~viewer.present
    /\ generation < MaxGenerations
    /\ mirrors' = mirrorList
    /\ viewer' = Viewer(1, 2, 15)
    /\ objects' = objs
    /\ LET reflections == updateVirtualObjectsAndViewers(objs, Viewer(1, 2, 15), mirrorList)
       IN  /\ virtualObjects' = reflections.virtualObjects
           /\ virtualViewers' = reflections.virtualViewers
    /\ generation' = generation + 1
    /\ dom' = renderVirtualObjectsAndViewers(
                  render(clearVirtualObjectsAndViewers(dom, generation, Len(virtualObjects),
                                                       Len(virtualViewers)),
                         ViewerEntity),
                  generation', Len(virtualObjects'), Len(virtualViewers'))
    /\ op' = "init"
    /\ UNCHANGED <<maxDepth, polygonVertices, object, rpLog, polyLog, stack, repeat, dragVars>>

\* the mousedown listener of a rendered PolygonObject
ObjectMouseDown(obj, e) ==
    /\ op # "none"
    /\ \E i \in DOMAIN objects : objects[i] = obj
    /\ drags < MaxDrags
    /\ isDragging' = [isDragging EXCEPT ![obj] = TRUE]
    /\ isSelected' = [isSelected EXCEPT ![obj] = TRUE]
    /\ dragStart' = [dragStart EXCEPT
                        ![obj] = [x |-> e.x, y |-> e.y, vertices |-> polygonVertices[obj]]]
    /\ drags' = drags + 1
    /\ op' = "mousedown"
    /\ UNCHANGED <<mirrors, maxDepth, polygonVertices, object, viewer, virtualObjects,
                   virtualViewers, rpLog, polyLog, stack, objects, repeat, dragOffset, mouse,
                   domVars>>

\* the position handleMouseMove leaves the Viewer at, without the test of
\* isDragging
moved_always(v, dragging, offset, e) ==
    [v EXCEPT !.x = e.x - offset.x, !.y = e.y - offset.y]

\* the position handleMouseMove leaves the Viewer at
moved(v, dragging, offset, e) ==
    IF ~dragging THEN v
    ELSE [v EXCEPT !.x = e.x - offset.x, !.y = e.y - offset.y]

\* Viewer.handleMouseDown
handleMouseDown(e) ==
    /\ ViewerEntity \in dom.element
    /\ drags < MaxDrags
    /\ isDragging' = [isDragging EXCEPT !["viewer"] = TRUE]
    /\ mouse' = e
    /\ dragOffset' = Point(e.x - viewer.x, e.y - viewer.y)
    /\ drags' = drags + 1
    /\ op' = "handleMouseDown"
    /\ UNCHANGED <<mirrors, maxDepth, polygonVertices, object, viewer, virtualObjects,
                   virtualViewers, rpLog, polyLog, stack, objects, repeat, isSelected, dragStart, domVars>>

\* a mousemove on the document: the listener of every rendered PolygonObject
\* runs, and Viewer.handleMouseMove.  Each returns unless its entity is being
\* dragged; none of them calls onPositionChange.
DocumentMouseMove(e) ==
    /\ op # "none"
    /\ polygonVertices' =
          [ o \in PolygonObjects |->
              IF isDragging[o]
              THEN translate(dragStart[o].vertices, e.x - dragStart[o].x, e.y - dragStart[o].y)
              ELSE polygonVertices[o] ]
    /\ viewer' = moved(viewer, isDragging["viewer"], dragOffset, e)
    /\ mouse' = IF isDragging["viewer"] THEN e ELSE mouse
    /\ op' = "mousemove"
    /\ UNCHANGED <<mirrors, maxDepth, object, virtualObjects, virtualViewers,
                   rpLog, polyLog, stack, objects, repeat, isDragging, isSelected,
                   dragStart, dragOffset, drags, domVars>>

\* a mouseup on the document: every PolygonObject listener and
\* Viewer.handleMouseUp clear isDragging
DocumentMouseUp ==
    /\ op # "none"
    /\ isDragging' = [e \in Draggables |-> FALSE]
    /\ op' = "mouseup"
    /\ UNCHANGED <<mirrors, maxDepth, polygonVertices, object, viewer, virtualObjects,
                   virtualViewers, rpLog, polyLog, stack, objects, repeat,
                   isSelected, dragStart, dragOffset, drags, mouse, domVars>>

NextMain ==
    \/ \E objs \in SceneObjectLists, mirrorList \in SceneMirrorLists : MainInit(objs, mirrorList)
    \/ \E obj \in PolygonObjects, e \in MousePositions : ObjectMouseDown(obj, e)
    \/ \E e \in MousePositions : handleMouseDown(e)
    \/ \E e \in MousePositions : DocumentMouseMove(e)
    \/ DocumentMouseUp

SpecMain == InitMain /\ [][NextMain]_vars

(***************************************************************************)
(* MainSimulation.addObject and removeObject                               *)
(*                                                                         *)
(* Both change the object list of the real scene and then regenerate the   *)
(* virtual lists.  An object may be handed to addObject more than once,    *)
(* and removeObject may be given an object that is not in the scene.       *)
(***************************************************************************)
\* Array.prototype.indexOf: the first position holding the object, 0 for
\* JavaScript's -1
indexOf(objs, obj) ==
    IF \E i \in DOMAIN objs : objs[i] = obj
    THEN CHOOSE i \in DOMAIN objs :
             /\ objs[i] = obj
             /\ \A j \in 1..(i - 1) : objs[j] # obj
    ELSE 0

\* objs.splice(index, 1)
splice(objs, index) ==
    SubSeq(objs, 1, index - 1) \o SubSeq(objs, index + 1, Len(objs))

\* RealSceneSimulation.removeObject: the list after the call
removeObject(objs, obj) ==
    IF indexOf(objs, obj) > 0 THEN splice(objs, indexOf(objs, obj)) ELSE objs

\* MainSimulation.addObject
AddObject(obj) ==
    /\ generation < MaxGenerations
    /\ Len(objects) < MaxObjects
    /\ objects' = Append(objects, obj)
    /\ LET reflections == updateVirtualObjectsAndViewers(objects', viewer, mirrors)
       IN  /\ virtualObjects' = reflections.virtualObjects
           /\ virtualViewers' = reflections.virtualViewers
    /\ generation' = generation + 1
    /\ dom' = clearVirtualObjectsAndViewers(dom, generation, Len(virtualObjects),
                                            Len(virtualViewers))
    /\ op' = "addObject"
    /\ UNCHANGED <<mirrors, maxDepth, polygonVertices, object, viewer, rpLog, polyLog,
                   stack, repeat, dragVars>>

\* MainSimulation.removeObject
RemoveObject(obj) ==
    /\ generation < MaxGenerations
    /\ objects' = removeObject(objects, obj)
    /\ LET reflections == updateVirtualObjectsAndViewers(objects', viewer, mirrors)
       IN  /\ virtualObjects' = reflections.virtualObjects
           /\ virtualViewers' = reflections.virtualViewers
    /\ generation' = generation + 1
    /\ dom' = clearVirtualObjectsAndViewers(dom, generation, Len(virtualObjects),
                                            Len(virtualViewers))
    /\ op' = "removeObject"
    /\ UNCHANGED <<mirrors, maxDepth, polygonVertices, object, viewer, rpLog, polyLog,
                   stack, repeat, dragVars>>

\* an object of the initialised scene is moved between two calls
SceneMoveObject(obj, vertices) ==
    /\ viewer.present
    /\ obj \in Range(objects)
    /\ MoveObject(obj, vertices)

NextScene ==
    \/ \E objs \in SceneObjectLists, mirrorList \in SceneMirrorLists : MainInit(objs, mirrorList)
    \/ \E obj \in PolygonObjects : AddObject(obj)
    \/ \E obj \in PolygonObjects : RemoveObject(obj)
    \/ \E obj \in PolygonObjects : \E vertices \in Placements(obj) : SceneMoveObject(obj, vertices)

SpecScene == InitMain /\ [][NextScene]_vars

(***************************************************************************)
(* The Viewer on its own: its methods called in any order                  *)
(***************************************************************************)
\* a Viewer constructed, not rendered yet
InitViewer ==
    /\ mirrors = <<>>
    /\ maxDepth = maxReflectionDepth
    /\ polygonVertices = InitialVertices
    /\ object = NoObject
    /\ viewer \in { Viewer(x, y, 15) : x \in 0..MaxCoord, y \in 0..MaxCoord }
    /\ virtualObjects = <<>>
    /\ virtualViewers = <<>>
    /\ op = "constructor"
    /\ rpLog = <<>>
    /\ polyLog = <<>>
    /\ stack = <<>>
    /\ InitDom
    /\ objects = <<>>
    /\ repeat = FALSE
    /\ InitDrag

\* Viewer.render
ViewerRender ==
    /\ dom.created < MaxRenders
    /\ dom' = render(dom, ViewerEntity)
    /\ op' = "render"
    /\ UNCHANGED <<mirrors, maxDepth, polygonVertices, object, viewer, virtualObjects,
                   virtualViewers, rpLog, polyLog, stack, objects, repeat, dragVars,
                   generation>>

\* Viewer.handleMouseMove
handleMouseMove(e) ==
    /\ viewer' = moved(viewer, isDragging["viewer"], dragOffset, e)
    /\ mouse' = IF isDragging["viewer"] THEN e ELSE mouse
    /\ op' = "handleMouseMove"
    /\ UNCHANGED <<mirrors, maxDepth, polygonVertices, object, virtualObjects,
                   virtualViewers, rpLog, polyLog, stack, objects, repeat, isDragging,
                   isSelected, dragStart, dragOffset, drags, domVars>>

\* Viewer.handleMouseUp
handleMouseUp ==
    /\ isDragging' = [isDragging EXCEPT !["viewer"] = FALSE]
    /\ op' = "handleMouseUp"
    /\ UNCHANGED <<mirrors, maxDepth, polygonVertices, object, viewer, virtualObjects,
                   virtualViewers, rpLog, polyLog, stack, objects, repeat,
                   isSelected, dragStart, dragOffset, drags, mouse, domVars>>

\* Viewer.destroy
ViewerDestroy ==
    /\ dom' = destroy(dom, ViewerEntity)
    /\ isDragging' = [isDragging EXCEPT !["viewer"] = FALSE]
    /\ op' = "destroy"
    /\ UNCHANGED <<mirrors, maxDepth, polygonVertices, object, viewer, virtualObjects,
                   virtualViewers, rpLog, polyLog, stack, objects, repeat,
                   isSelected, dragStart, dragOffset, drags, mouse, generation>>

NextViewer ==
    \/ ViewerRender
    \/ \E e \in MousePositions : handleMouseDown(e)
    \/ \E e \in MousePositions : handleMouseMove(e)
    \/ handleMouseUp
    \/ ViewerDestroy

SpecViewer == InitViewer /\ [][NextViewer]_vars

(***************************************************************************)
(* VirtualSimulation: regeneration and rendering                           *)
(***************************************************************************)
\* a VirtualSimulation constructed with the depth MainSimulation gives it
InitVirtual == InitMain

\* VirtualSimulation.generateVirtualObjectsAndViewers
GenerateVirtualObjectsAndViewers(objs, v, mirrorList) ==
    /\ generation < MaxGenerations
    /\ dom' = clearVirtualObjectsAndViewers(dom, generation,
                                            Len(virtualObjects), Len(virtualViewers))
    /\ generation' = generation + 1
    /\ LET reflections == calculateAllReflectionsWithViewer(objs, v, mirrorList, maxDepth)
       IN  /\ virtualObjects' = reflections.virtualObjects
           /\ virtualViewers' = reflections.virtualViewers
    /\ mirrors' = mirrorList
    /\ objects' = objs
    /\ viewer' = v
    /\ op' = "generateVirtualObjectsAndViewers"
    /\ repeat' = FALSE
    /\ UNCHANGED <<maxDepth, polygonVertices, object, rpLog, polyLog, stack, dragVars>>

\* VirtualSimulation.renderVirtualObjectsAndViewers
RenderVirtualObjectsAndViewers ==
    /\ dom' = renderVirtualObjectsAndViewers(dom, generation,
                                             Len(virtualObjects), Len(virtualViewers))
    /\ op' = "renderVirtualObjectsAndViewers"
    /\ repeat' = (op = "renderVirtualObjectsAndViewers")
    /\ UNCHANGED <<mirrors, maxDepth, polygonVertices, object, viewer, virtualObjects,
                   virtualViewers, rpLog, polyLog, stack, objects, dragVars, generation>>

NextVirtual ==
    \/ \E objs \in SceneObjectLists, v \in {Viewer(1, 2, 15), NullViewer},
          mirrorList \in UpdateMirrorLists :
          GenerateVirtualObjectsAndViewers(objs, v, mirrorList)
    \/ RenderVirtualObjectsAndViewers

SpecVirtual == InitVirtual /\ [][NextVirtual]_vars

(***************************************************************************)
(* Calls of the first-level-only engine                                    *)
(***************************************************************************)
GenerateVirtualObjectsFirstLevel(obj) ==
    /\ virtualObjects' = generateVirtualObjectsFirstLevel(obj, mirrors, maxDepth)
    /\ object' = obj
    /\ op' = "generateVirtualObjects"
    /\ UNCHANGED <<mirrors, maxDepth, polygonVertices, viewer, virtualViewers, rpLog,
                   polyLog, stack, objects, repeat, dragVars, domVars>>

GenerateVirtualViewersFirstLevel ==
    /\ virtualViewers' = generateVirtualViewersFirstLevel(viewer, mirrors, maxDepth)
    /\ op' = "generateVirtualViewers"
    /\ UNCHANGED <<mirrors, maxDepth, polygonVertices, object, viewer, virtualObjects, rpLog,
                   polyLog, stack, objects, repeat, dragVars, domVars>>

NextFirstLevel ==
    \/ \E obj \in PolygonObjects : GenerateVirtualObjectsFirstLevel(obj)
    \/ GenerateVirtualViewersFirstLevel

SpecFirstLevel == Init /\ [][NextFirstLevel]_vars

(***************************************************************************)
(* Calls of reflectPoint on its own: a first call and a second one, which  *)
(* reflects another point or the point the first call returned.            *)
(***************************************************************************)
InitPoint ==
    /\ mirrors = <<>>
    /\ maxDepth = 0
    /\ polygonVertices = InitialVertices
    /\ object = NoObject
    /\ viewer = NullViewer
    /\ virtualObjects = <<>>
    /\ virtualViewers = <<>>
    /\ op = "none"
    /\ rpLog = <<>>
    /\ polyLog = <<>>
    /\ stack = <<>>
    /\ InitDom
    /\ objects = <<>>
    /\ repeat = FALSE
    /\ InitDrag

Call(point, mirror) ==
    [point |-> point, mirror |-> mirror, result |-> reflectPoint(point, mirror),
     warning |-> reflectPointWarning(mirror)]

ReflectPoint(point, mirror) ==
    /\ Len(rpLog) < 2
    /\ polyLog = <<>>
    /\ rpLog' = Append(rpLog, Call(point, mirror))
    /\ op' = "reflectPoint"
    /\ UNCHANGED <<mirrors, maxDepth, polygonVertices, object, viewer,
                   virtualObjects, virtualViewers, polyLog, stack, objects, repeat, dragVars, domVars>>

\* the second call reflects the point the first call returned
ReflectResult(mirror) ==
    /\ Len(rpLog) = 1
    /\ rpLog' = Append(rpLog, Call(rpLog[1].result, mirror))
    /\ op' = "reflectPoint"
    /\ UNCHANGED <<mirrors, maxDepth, polygonVertices, object, viewer,
                   virtualObjects, virtualViewers, polyLog, stack, objects, repeat, dragVars, domVars>>

\* the vertex lists handed to reflectPolygon
Polygons ==
    { InitialVertices[o] : o \in PolygonObjects }
      \cup { <<>>, <<Point(0, 0)>>,
              <<Point(0, MaxCoord), Point(MaxCoord, 0), Point(0, 0)>> }

PolyCall(vertices, mirror) ==
    [vertices |-> vertices, mirror |-> mirror, result |-> reflectPolygon(vertices, mirror)]

\* a reflectPolygon call on its own
ReflectPolygon(vertices, mirror) ==
    /\ rpLog = <<>>
    /\ polyLog = <<>>
    /\ polyLog' = <<PolyCall(vertices, mirror)>>
    /\ op' = "reflectPolygon"
    /\ UNCHANGED <<mirrors, maxDepth, polygonVertices, object, viewer,
                   virtualObjects, virtualViewers, rpLog, stack, objects, repeat, dragVars, domVars>>

NextPoint ==
    \/ \E point \in Points, mirror \in AllMirrors : ReflectPoint(point, mirror)
    \/ \E mirror \in AllMirrors : ReflectResult(mirror)
    \/ \E vertices \in Polygons, mirror \in AllMirrors : ReflectPolygon(vertices, mirror)

SpecPoint == InitPoint /\ [][NextPoint]_vars

(***************************************************************************)
(* Properties                                                              *)
(***************************************************************************)

RECURSIVE Pow(_, _)
Pow(b, e) == IF e <= 0 THEN 1 ELSE b * Pow(b, e - 1)

\* the reflections of a chain applied one after the other, first mirror first
RECURSIVE ChainImage(_, _)
ChainImage(vertices, chain) ==
    IF chain = <<>> THEN vertices
    ELSE ChainImage(reflectPolygon(vertices, Head(chain)), Tail(chain))

RECURSIVE ChainPoint(_, _)
ChainPoint(point, chain) ==
    IF chain = <<>> THEN point
    ELSE ChainPoint(reflectPoint(point, Head(chain)), Tail(chain))

NoRepeat(chain) ==
    \A i \in 1..(Len(chain) - 1) : ~SameInstance(chain[i], chain[i + 1])

\* the mirror sequences of length 1..d with no two equal consecutive mirrors
LegalChains(mirrorList, d) ==
    { c \in UNION { [1..k -> Range(mirrorList)] : k \in 1..d } : NoRepeat(c) }

ChainsOf(entities) == { entities[i].reflectionChain : i \in DOMAIN entities }

AtDepth(entities, k) == { i \in DOMAIN entities : entities[i].depth = k }

Dist2(a, b) == (a.x - b.x) * (a.x - b.x) + (a.y - b.y) * (a.y - b.y)

\* the VirtualObjects of one original object, in list order
ImagesOf(entities, obj) == SelectSeq(entities, LAMBDA e : e.originalObject = obj)

Occurrences(objs, obj) == Cardinality({ i \in DOMAIN objs : objs[i] = obj })

SceneOps == { "init", "addObject", "removeObject" }

\* C1: every VirtualObject returned by generateVirtualObjects has the vertices
\* obtained by reflecting the object's vertices across the mirrors of its
\* reflectionChain, one after the other in chain order.
C1_ChainComposition ==
    \A i \in DOMAIN virtualObjects :
        virtualObjects[i].vertices
          = ChainImage(polygonVertices[virtualObjects[i].originalObject],
                       virtualObjects[i].reflectionChain)

\* a returned image of an image: a 2-chain that differs from the object and
\* from either single reflection
C1_Witness ==
    \E i \in DOMAIN virtualObjects :
        LET vo == virtualObjects[i]
            orig == polygonVertices[vo.originalObject]
        IN  /\ Len(vo.reflectionChain) = 2
            /\ vo.vertices # orig
            /\ vo.vertices # reflectPolygon(orig, vo.reflectionChain[1])
            /\ vo.vertices # reflectPolygon(orig, vo.reflectionChain[2])

\* C2: no reflectionChain of a returned VirtualObject or VirtualViewer holds the
\* same mirror instance at two consecutive positions.
C2_NoBackReflection ==
    /\ \A i \in DOMAIN virtualObjects : NoRepeat(virtualObjects[i].reflectionChain)
    /\ \A i \in DOMAIN virtualViewers : NoRepeat(virtualViewers[i].reflectionChain)

\* the mirror list names one instance twice and chains of length 3 came back,
\* for the object and for the viewer
C2_Witness ==
    /\ ~Distinct(mirrors)
    /\ \E i \in DOMAIN virtualObjects : Len(virtualObjects[i].reflectionChain) = 3
    /\ \E i \in DOMAIN virtualViewers : Len(virtualViewers[i].reflectionChain) = 3

\* C3: for pairwise distinct mirrors and maxDepth >= 0, generateVirtualObjects
\* returns exactly one VirtualObject for each mirror sequence of length
\* 1..maxDepth without two equal consecutive mirrors, and nothing else.
C3_ExactlyTheLegalChains ==
    (op = "generateVirtualObjects" /\ Distinct(mirrors) /\ maxDepth >= 0)
      => /\ ChainsOf(virtualObjects) = LegalChains(mirrors, maxDepth)
         /\ Len(virtualObjects) = Cardinality(LegalChains(mirrors, maxDepth))

\* C4 as stated: for 4 distinct mirrors generateVirtualObjects returns
\* 4 * 3^(d-1) entities for maxDepth = d >= 1, and none for d = 0.
C4_BoxCount ==
    (op = "generateVirtualObjects" /\ Distinct(mirrors) /\ Len(mirrors) = 4)
      => /\ maxDepth >= 1 => Len(virtualObjects) = 4 * Pow(3, maxDepth - 1)
         /\ maxDepth = 0 => Len(virtualObjects) = 0

\* C4 amended: for 4 distinct mirrors and maxDepth = d >= 1,
\* generateVirtualObjects returns 4 * 3^(k-1) entities of each depth k in 1..d,
\* 2 * (3^d - 1) entities in all, and none for d = 0.
C4_BoxTotal ==
    (op = "generateVirtualObjects" /\ Distinct(mirrors) /\ Len(mirrors) = 4)
      => /\ maxDepth >= 1 => Len(virtualObjects) = 2 * (Pow(3, maxDepth) - 1)
         /\ \A k \in 1..maxDepth :
               Cardinality(AtDepth(virtualObjects, k)) = 4 * Pow(3, k - 1)
         /\ maxDepth = 0 => Len(virtualObjects) = 0

C4_Witness ==
    /\ op = "generateVirtualObjects" /\ Distinct(mirrors) /\ Len(mirrors) = 4
    /\ maxDepth = 3
    /\ Len(virtualObjects) = 52
    /\ Cardinality(AtDepth(virtualObjects, 3)) = 36

\* C5: for n pairwise distinct mirrors the VirtualObjects of depth exactly k
\* number n for k = 1 and n * (n-1)^(k-1) for 2 <= k <= maxDepth; two mirrors
\* with maxDepth = 2 give 4 entities, one mirror gives 1 for any maxDepth >= 1.
C5_CountPerDepth ==
    (op = "generateVirtualObjects" /\ Distinct(mirrors))
      => LET n == Len(mirrors) IN
         /\ \A k \in 1..maxDepth :
               Cardinality(AtDepth(virtualObjects, k))
                 = IF k = 1 THEN n ELSE n * Pow(n - 1, k - 1)
         /\ (n = 2 /\ maxDepth = 2) => Len(virtualObjects) = 4
         /\ (n = 1 /\ maxDepth >= 1) => Len(virtualObjects) = 1

C5_Witness ==
    /\ op = "generateVirtualObjects" /\ Distinct(mirrors) /\ Len(mirrors) = 3
    /\ maxDepth = 3
    /\ Cardinality(AtDepth(virtualObjects, 2)) = 6
    /\ Cardinality(AtDepth(virtualObjects, 3)) = 12

\* C6: every returned VirtualObject and VirtualViewer has depth equal to the
\* length of its reflectionChain, and that length lies in 1..maxDepth.
C6_DepthIsChainLength ==
    /\ \A i \in DOMAIN virtualObjects :
          /\ virtualObjects[i].depth = Len(virtualObjects[i].reflectionChain)
          /\ virtualObjects[i].depth \in 1..maxDepth
    /\ \A i \in DOMAIN virtualViewers :
          /\ virtualViewers[i].depth = Len(virtualViewers[i].reflectionChain)
          /\ virtualViewers[i].depth \in 1..maxDepth

C6_Witness ==
    /\ maxDepth = 2
    /\ \E i \in DOMAIN virtualObjects : virtualObjects[i].depth = 2
    /\ \E i \in DOMAIN virtualObjects : virtualObjects[i].depth = 1
    /\ \E i \in DOMAIN virtualViewers : virtualViewers[i].depth = 2

\* C7: for a mirror with x1 = x2, reflectPoint returns
\* {x: 2 * mirror.x1 - p.x, y: p.y}; mirror x = 100 sends (40, 50) to (160, 50).
C7_VerticalReflection ==
    \A i \in DOMAIN rpLog :
        rpLog[i].mirror.x1 = rpLog[i].mirror.x2
          => rpLog[i].result
               = Point(2 * rpLog[i].mirror.x1 - rpLog[i].point.x, rpLog[i].point.y)

C7_Witness ==
    \E i \in DOMAIN rpLog :
        /\ rpLog[i].mirror = Mirror(9, 100, 0, 100, 100)
        /\ rpLog[i].point = Point(40, 50)
        /\ rpLog[i].result = Point(160, 50)

\* C8: for every mirror with y1 = y2, reflectPoint returns
\* {x: p.x, y: 2 * mirror.y1 - p.y}.
C8_HorizontalReflection ==
    \A i \in DOMAIN rpLog :
        rpLog[i].mirror.y1 = rpLog[i].mirror.y2
          => rpLog[i].result
               = Point(rpLog[i].point.x, 2 * rpLog[i].mirror.y1 - rpLog[i].point.y)

\* C9: reflecting the point a reflectPoint call returned across the same
\* mirror gives back the point that call was given.
C9_Involution ==
    (Len(rpLog) = 2 /\ rpLog[2].point = rpLog[1].result
       /\ SameInstance(rpLog[2].mirror, rpLog[1].mirror))
      => rpLog[2].result = rpLog[1].point

C9_Witness ==
    /\ Len(rpLog) = 2
    /\ rpLog[2].point = rpLog[1].result
    /\ SameInstance(rpLog[2].mirror, rpLog[1].mirror)
    /\ rpLog[1].result # rpLog[1].point
    /\ rpLog[1].result \notin Points

\* C10: two points reflected across the same mirror are as far apart after the
\* reflection as before (squared distances are equal).
C10_DistancePreserved ==
    \A i, j \in DOMAIN rpLog :
        SameInstance(rpLog[i].mirror, rpLog[j].mirror)
          => Dist2(rpLog[i].result, rpLog[j].result)
               = Dist2(rpLog[i].point, rpLog[j].point)

C10_Witness ==
    /\ Len(rpLog) = 2
    /\ SameInstance(rpLog[1].mirror, rpLog[2].mirror)
    /\ rpLog[1].point.x # rpLog[2].point.x
    /\ rpLog[1].point.y # rpLog[2].point.y
    /\ rpLog[1].result # rpLog[1].point
    /\ rpLog[2].result # rpLog[2].point

\* C11: reflectPolygon returns a list as long as the one it was given, whose
\* i-th element is reflectPoint of the i-th vertex across the mirror, for
\* every index i: the vertex order is kept.
C11_ReflectPolygonPointwise ==
    \A c \in DOMAIN polyLog :
        /\ Len(polyLog[c].result) = Len(polyLog[c].vertices)
        /\ \A i \in 1..Len(polyLog[c].vertices) :
              polyLog[c].result[i] = reflectPoint(polyLog[c].vertices[i], polyLog[c].mirror)

\* a triangle reflected across a mirror that moves every vertex, where the
\* order shows: the first image is not the image of the last vertex
C11_Witness ==
    \E c \in DOMAIN polyLog :
        LET vertices == polyLog[c].vertices
            result == polyLog[c].result
        IN  /\ Len(vertices) = 3
            /\ \A i \in 1..3 : result[i] # vertices[i]
            /\ result[1] # reflectPoint(vertices[3], polyLog[c].mirror)

IsPoint(r) == DOMAIN r = {"x", "y"} /\ r.x \in Int /\ r.y \in Int

Orthogonal(mirror) == mirror.x1 = mirror.x2 \/ mirror.y1 = mirror.y2

\* C12 as stated: for a mirror that is neither horizontal nor vertical,
\* reflectPoint fails with UnsupportedMirrorOrientation and returns no point.
C12_FailsOnNonOrthogonal ==
    \A i \in DOMAIN rpLog :
        ~Orthogonal(rpLog[i].mirror) => ~IsPoint(rpLog[i].result)

\* C12 amended: for a mirror that is neither horizontal nor vertical,
\* reflectPoint writes a warning and returns the point it was given, unchanged;
\* for a horizontal or vertical mirror it writes no warning.
C12_WarnsAndReturnsInput ==
    \A i \in DOMAIN rpLog :
        IF Orthogonal(rpLog[i].mirror)
        THEN rpLog[i].warning = NoWarning
        ELSE /\ rpLog[i].result = rpLog[i].point
             /\ rpLog[i].warning # NoWarning

\* the diagonal mirror and a point off both axes
C12_Witness ==
    \E i \in DOMAIN rpLog :
        /\ ~Orthogonal(rpLog[i].mirror)
        /\ rpLog[i].point.x # 0 /\ rpLog[i].point.y # 0
        /\ rpLog[i].result = rpLog[i].point
        /\ rpLog[i].warning # NoWarning

\* C13: a call of generateVirtualObjects, generateVirtualViewers,
\* calculateAllReflections or calculateAllReflectionsWithViewer with
\* maxDepth < 0 is rejected: it never hands back what the same call hands back
\* for maxDepth = 0.
C13_NegativeDepthRejected ==
    maxDepth < 0
      => /\ op = "generateVirtualObjects"
              => virtualObjects # generateVirtualObjects(object, mirrors, 0)
         /\ op = "generateVirtualViewers"
              => virtualViewers # generateVirtualViewers(viewer, mirrors, 0)
         /\ op = "calculateAllReflections"
              => virtualObjects # calculateAllReflections(objects, mirrors, 0)
         /\ op = "calculateAllReflectionsWithViewer"
              => <<virtualObjects, virtualViewers>>
                   # <<calculateAllReflections(objects, mirrors, 0),
                       generateVirtualViewers(viewer, mirrors, 0)>>

\* C14: with an empty mirrors list and maxDepth > 0, generateVirtualObjects
\* returns the empty list.
C14_NoMirrorsNoImages ==
    (op = "generateVirtualObjects" /\ mirrors = <<>> /\ maxDepth > 0)
      => virtualObjects = <<>>

C14_Witness ==
    /\ op = "generateVirtualObjects" /\ object = "triangle"
    /\ mirrors = <<>> /\ maxDepth >= 2
    /\ virtualObjects = <<>>

\* C15: with viewer = null, generateVirtualViewers returns the empty list for
\* every mirrors list and maxDepth, and calculateAllReflectionsWithViewer
\* returns an empty virtualViewers list together with the virtualObjects list
\* that calculateAllReflections returns for the same objects, mirrors and
\* maxDepth.
C15_NoViewerNoViewerImages ==
    ~viewer.present
      => /\ op = "generateVirtualViewers" => virtualViewers = <<>>
         /\ op = "calculateAllReflectionsWithViewer"
              => /\ virtualViewers = <<>>
                 /\ virtualObjects = calculateAllReflections(objects, mirrors, maxDepth)

C15_Witness ==
    /\ ~viewer.present
    /\ op = "calculateAllReflectionsWithViewer"
    /\ Len(objects) = 2 /\ Len(mirrors) = 2 /\ maxDepth >= 2
    /\ virtualViewers = <<>>
    /\ Len(virtualObjects) >= 8

\* C16: calculateAllReflections returns, one block after the other in the
\* order of the objects list, the list generateVirtualObjects returns for each
\* object; every entity of a block has that object as its originalObject.
C16_ObjectMajorOrder ==
    op = "calculateAllReflections"
      => LET n == Len(objects) IN
         IF n = 0 THEN virtualObjects = <<>>
         ELSE LET per == Len(virtualObjects) \div n IN
              /\ Len(virtualObjects) = n * per
              /\ \A k \in 1..n :
                    /\ SubSeq(virtualObjects, (k - 1) * per + 1, k * per)
                         = generateVirtualObjects(objects[k], mirrors, maxDepth)
                    /\ \A i \in ((k - 1) * per + 1)..(k * per) :
                          virtualObjects[i].originalObject = objects[k]

\* two objects, the square first, at least two entities each
C16_Witness ==
    /\ op = "calculateAllReflections"
    /\ objects = <<"square", "triangle">>
    /\ Len(virtualObjects) >= 4
    /\ virtualObjects[1].originalObject = "square"
    /\ virtualObjects[Len(virtualObjects)].originalObject = "triangle"

C18_ViewerFollowsTheSameSearch ==
    (op = "generateVirtualViewers" /\ viewer.present /\ object # NoObject)
      => /\ Len(virtualViewers) = Len(virtualObjects)
         /\ \A i \in DOMAIN virtualViewers :
               /\ virtualViewers[i].reflectionChain = virtualObjects[i].reflectionChain
               /\ virtualViewers[i].depth = virtualObjects[i].depth
               /\ Point(virtualViewers[i].x, virtualViewers[i].y)
                    = ChainPoint(getPosition(viewer), virtualViewers[i].reflectionChain)

C18_Witness ==
    /\ op = "generateVirtualViewers" /\ viewer.present /\ object # NoObject
    /\ Len(mirrors) = 2 /\ maxDepth >= 2
    /\ \E i \in DOMAIN virtualViewers :
          /\ virtualViewers[i].depth = 2
          /\ Point(virtualViewers[i].x, virtualViewers[i].y) # getPosition(viewer)
          /\ virtualObjects[i].depth = 2

\* C19: after an object's vertices changed and updateVirtualObjects was
\* applied to the list generated before, every VirtualObject of the list has
\* the vertices obtained by reflecting its original object's current vertices
\* across its whole reflectionChain in order, for chains of every length.
C19_UpdateFollowsWholeChain ==
    (op = "updateVirtualObjects" /\ polygonVertices # InitialVertices)
      => \A i \in DOMAIN virtualObjects :
            virtualObjects[i].vertices
              = ChainImage(polygonVertices[virtualObjects[i].originalObject],
                           virtualObjects[i].reflectionChain)

C21_DepthOpacityLaw ==
    LET Law(e) == /\ e.opacity = (IF e.depth <= 3 THEN 10 - 2 * e.depth ELSE 3)
                  /\ e.opacity >= 3
        Fades(es) == \A i, j \in DOMAIN es :
                        es[i].depth <= es[j].depth => es[i].opacity >= es[j].opacity
    IN  /\ \A i \in DOMAIN virtualObjects : Law(virtualObjects[i])
        /\ \A i \in DOMAIN virtualViewers : Law(virtualViewers[i])
        /\ Fades(virtualObjects)
        /\ Fades(virtualViewers)

\* entities of depth 1, of the last depth above the floor and beyond it
C21_Witness ==
    /\ \E i \in DOMAIN virtualObjects :
          virtualObjects[i].depth = 1 /\ virtualObjects[i].opacity = 8
    /\ \E i \in DOMAIN virtualObjects :
          virtualObjects[i].depth = 3 /\ virtualObjects[i].opacity = 4
    /\ \E i \in DOMAIN virtualObjects :
          virtualObjects[i].depth >= 5 /\ virtualObjects[i].opacity = 3
    /\ \E i \in DOMAIN virtualViewers :
          virtualViewers[i].depth >= 5 /\ virtualViewers[i].opacity = 3

SameCoordinates(a, b) ==
    a.x1 = b.x1 /\ a.y1 = b.y1 /\ a.x2 = b.x2 /\ a.y2 = b.y2

\* C22: when the mirrors list holds two distinct instances a and b with the
\* same coordinates and maxDepth >= 2, generateVirtualObjects returns an
\* entity with chain [a, b] and another with chain [b, a], each with the
\* vertices of the original object, and none with chain [a, a] or [b, b].
C22_AdjacencyByIdentity ==
    (op = "generateVirtualObjects" /\ maxDepth >= 2)
      => \A m, n \in DOMAIN mirrors :
            LET a == mirrors[m]
                b == mirrors[n]
            IN  (a.id # b.id /\ SameCoordinates(a, b))
                  => /\ \E i, j \in DOMAIN virtualObjects :
                           /\ i # j
                           /\ virtualObjects[i].reflectionChain = <<a, b>>
                           /\ virtualObjects[j].reflectionChain = <<b, a>>
                           /\ virtualObjects[i].vertices = polygonVertices[object]
                           /\ virtualObjects[j].vertices = polygonVertices[object]
                     /\ <<a, a>> \notin ChainsOf(virtualObjects)
                     /\ <<b, b>> \notin ChainsOf(virtualObjects)

\* the two vertical mirrors x = 3 of the second scene, chained one after the
\* other, while each alone moves the object
C22_Witness ==
    /\ op = "generateVirtualObjects" /\ maxDepth >= 2
    /\ \E m, n \in DOMAIN mirrors :
          /\ mirrors[m].id # mirrors[n].id
          /\ SameCoordinates(mirrors[m], mirrors[n])
          /\ \E i, k \in DOMAIN virtualObjects :
                /\ virtualObjects[i].reflectionChain = <<mirrors[m], mirrors[n]>>
                /\ virtualObjects[i].vertices = polygonVertices[object]
                /\ virtualObjects[k].reflectionChain = <<mirrors[m]>>
                /\ virtualObjects[k].vertices # polygonVertices[object]

EngineOps ==
    { "generateVirtualObjects", "generateVirtualViewers",
      "calculateAllReflections", "calculateAllReflectionsWithViewer" }

\* C23: a call of generateVirtualObjects, generateVirtualViewers,
\* calculateAllReflections or calculateAllReflectionsWithViewer leaves the
\* vertices of every object, the viewer's position and radius, and the mirrors
\* list with every mirror's coordinates as they were before the call.
C23_InputsUnchanged ==
    [][ op' \in EngineOps
          => /\ polygonVertices' = polygonVertices
             /\ viewer' = viewer
             /\ mirrors' = mirrors ]_vars

\* a call that returned images of two objects and of the viewer, one of the
\* mirrors being the diagonal one, whose images share the coordinates of
\* what they reflect
C23_Witness ==
    /\ op = "calculateAllReflectionsWithViewer"
    /\ Len(objects) = 2 /\ Len(virtualObjects) >= 4 /\ Len(virtualViewers) >= 2
    /\ \E m \in DOMAIN mirrors : ~Orthogonal(mirrors[m])
    /\ polygonVertices = InitialVertices
    /\ viewer = Viewer(1, 2, 15)

\* C24: no ReflectionEngine operation changes a VirtualObject that an earlier
\* engine call returned: the entities of a list handed to
\* updateVirtualObjects have the vertices after the call that they had before.
C24_ReturnedEntitiesUntouched ==
    [][ op' = "updateVirtualObjects"
          => /\ Len(virtualObjects') = Len(virtualObjects)
             /\ \A i \in DOMAIN virtualObjects :
                   virtualObjects'[i].vertices = virtualObjects[i].vertices ]_vars

\* C25: every Mirror of a scene is vertical or horizontal and not both:
\* exactly one of x1 = x2 and y1 = y2 holds.
C25_OrientationInvariant ==
    \A m \in DOMAIN mirrors :
        isVertical(mirrors[m]) # isHorizontal(mirrors[m])

\* the recursive calls on the stack: each has the currentDepth of its caller
\* plus one, and none has a currentDepth above maxDepth
C26_DepthBounded ==
    \A k \in 2..Len(stack) :
        /\ stack[k].currentDepth = stack[k - 1].currentDepth + 1
        /\ stack[k].currentDepth <= maxDepth

\* what generateVirtualObjects returns is the whole list of the search
C26_Materialised ==
    op = "generateVirtualObjects"
      => /\ stack = <<>>
         /\ virtualObjects = generateVirtualObjects(object, mirrors, maxDepth)

\* C26: for every mirror list and every integer maxDepth a call of
\* generateVirtualObjects returns, with the complete list; while it runs, each
\* recursive call has a currentDepth one above its caller's and at most
\* maxDepth.
C26_Terminates ==
    /\ [](C26_DepthBounded /\ C26_Materialised)
    /\ (op = "running") ~> (op = "generateVirtualObjects")

\* four mirrors: the recursion at its deepest, and the call returned with
\* entities of the greatest depth
C26_Witness ==
    /\ Len(mirrors) = 4 /\ maxDepth >= 3
    /\ op = "generateVirtualObjects"
    /\ stack = <<>>
    /\ \E i \in DOMAIN virtualObjects : virtualObjects[i].depth = maxDepth

\* C27: after updateVirtualObjects, every VirtualObject of depth 1 has the
\* vertices of the entity at the same place of the list that
\* calculateAllReflections returns for the objects' current vertices; entities
\* whose vertices differ from that list have depth > 1.
C27_UpdateMatchesRecomputeAtDepthOne ==
    op = "updateVirtualObjects"
      => LET recomputed == calculateAllReflections(objects, mirrors, maxDepth) IN
         /\ Len(recomputed) = Len(virtualObjects)
         /\ \A i \in DOMAIN virtualObjects :
               /\ virtualObjects[i].reflectionChain = recomputed[i].reflectionChain
               /\ virtualObjects[i].depth = 1
                    => virtualObjects[i].vertices = recomputed[i].vertices
               /\ virtualObjects[i].vertices # recomputed[i].vertices
                    => virtualObjects[i].depth > 1

\* an object was moved, then the update ran: a depth-1 entity has followed
\* the move, a deeper one differs from the recomputation
C27_Witness ==
    /\ op = "updateVirtualObjects"
    /\ LET recomputed == calculateAllReflections(objects, mirrors, maxDepth) IN
       /\ \E i \in DOMAIN virtualObjects :
             /\ virtualObjects[i].depth = 1
             /\ virtualObjects[i].vertices
                  # reflectPolygon(InitialVertices[virtualObjects[i].originalObject],
                                   virtualObjects[i].reflectionChain[1])
       /\ \E i \in DOMAIN virtualObjects :
             /\ virtualObjects[i].depth = 2
             /\ virtualObjects[i].vertices # recomputed[i].vertices

\* C28: after MainSimulation.init, addObject and removeObject the virtual
\* objects are exactly the reflections of the current real objects: every
\* VirtualObject's originalObject is in the scene's object list, every object
\* of the list has one image for every legal chain, and right after one of
\* the three calls the whole list is what the engine computes from the
\* scene as it then is.
C28_ImagesMatchScene ==
    /\ \A i \in DOMAIN virtualObjects :
           virtualObjects[i].originalObject \in Range(objects)
    /\ \A obj \in Range(objects) :
           /\ ChainsOf(ImagesOf(virtualObjects, obj)) = LegalChains(mirrors, maxDepth)
           /\ Len(ImagesOf(virtualObjects, obj))
                 = Occurrences(objects, obj) * Cardinality(LegalChains(mirrors, maxDepth))
    /\ op \in SceneOps =>
           /\ virtualObjects = calculateAllReflections(objects, mirrors, maxDepth)
           /\ \A i \in DOMAIN virtualObjects :
                  virtualObjects[i].vertices
                     = ChainImage(polygonVertices[virtualObjects[i].originalObject],
                                  virtualObjects[i].reflectionChain)

\* an object was removed from an initialised scene that still holds another
\* one, which was moved before the call, and the list has images
C28_Witness ==
    /\ op = "removeObject"
    /\ viewer.present
    /\ Len(objects) = 1
    /\ polygonVertices[objects[1]] # InitialVertices[objects[1]]
    /\ Len(virtualObjects) >= 2

\* the entities now in virtualObjects and virtualViewers
Listed ==
    { Entity(generation, "virtualObjects", i) : i \in DOMAIN virtualObjects }
      \cup { Entity(generation, "virtualViewers", i) : i \in DOMAIN virtualViewers }

ChildrenOf(entity) == { k \in DOMAIN dom.canvas : dom.canvas[k] = entity }

\* C29: after any sequence of generateVirtualObjectsAndViewers and
\* renderVirtualObjectsAndViewers calls, an entity that is no longer in the
\* lists has a null element and no element on the canvas, and an entity in
\* the lists has at most one element on the canvas.
C29_NoStaleImages ==
    /\ dom.element \subseteq Listed
    /\ Range(dom.canvas) \subseteq Listed
    /\ \A entity \in Listed : Cardinality(ChildrenOf(entity)) <= 1

\* render was called twice in a row on lists that replaced rendered ones:
\* elements were created for entities since destroyed, and every entity of
\* the lists is on the canvas
C29_Witness ==
    /\ op = "renderVirtualObjectsAndViewers"
    /\ repeat
    /\ generation >= 2
    /\ virtualObjects # <<>> /\ virtualViewers # <<>>
    /\ dom.created > Len(dom.canvas)
    /\ Len(dom.canvas) = Len(virtualObjects) + Len(virtualViewers)

====
